---- MODULE Spec2Model ----
(***************************************************************************)
(* A model of biwy.py: the hourly monitoring loop (main), the rolling      *)
(* window of visit/pizzeria ratios, its persistence in pizza_stats.csv     *)
(* (save_to_csv / load_ratios_history), the residual scoring of            *)
(* detect_anomaly and the cooperative shutdown through should_exit.        *)
(*                                                                         *)
(* Numbers.  A ratio is an exact rational <<p, q>> in lowest terms         *)
(* (q > 0).  The CSV stores a ratio as text with two decimals; a numeric   *)
(* cell is modelled by its value in hundredths.  The anomaly score is      *)
(* |latest| / std, which is not rational in general: the model carries     *)
(* the square of the score as an exact rational, and compares it with the  *)
(* square of the threshold (both sides are non-negative).                  *)
(*                                                                         *)
(* STL (statsmodels) is a library, not code of this program: a call        *)
(* either raises or returns a residual sequence as long as its input,      *)
(* drawn here from a small family of integer sequences.                    *)
(***************************************************************************)
EXTENDS Integers, Sequences, FiniteSets, TLC

\* ------------------------------------------------------------ bounds
\* Cycles of the main loop that a run of the model may start.
MaxCycles == 2
\* Pizzerias the Overpass query returns in the main-loop specification.
MaxPizzerias == 3
\* simulate_visits(n) ranges over 3n..15n; the model draws from 3n..3n+VisitSpread.
VisitSpread == 1
\* Longest CSV history present at startup (more than the window holds).
MaxHist == 74

\* ------------------------------------------------- program constants
WindowCap == 72
MinHistory == 24
Threshold == 3
SleepSteps == 3600
RandLo == 3
RandHi == 15

VARIABLES
    should_exit,        \* global flag set by handle_termination_signal
    pc,                 \* position of main
    csv,                \* pizza_stats.csv: [exists, header, rows]
    known_file,         \* pizzerias_seen.txt: the set of ids it lists
    area,               \* number of pizzerias the Overpass API knows (environment)
    ratios_history,     \* main's rolling window
    current_ids,        \* main's local current_ids
    num_pizzerias,      \* main's local
    num_visits,         \* main's local
    ratio,              \* main's local
    threshold,          \* detect_anomaly's parameter
    verdict,            \* (anomaly_detected, anomaly_score) as returned
    alerted,            \* whether the last log step printed the alert line
    i,                  \* iterations of the sleep loop completed
    cycles,             \* cycles started in this run
    arrivals,           \* history: ratios read at startup, then every ratio appended
    load_ok,            \* history: load_ratios_history returned without an exception
    scored_on,          \* history: the list last passed to detect_anomaly
    stl_result,         \* history: what the last STL call did
    stl_calls,          \* history: number of STL calls in the current cycle
    appended,           \* history: number of ratios appended to the window
    save_calls,         \* history: number of save_to_csv calls
    rows_written,       \* history: number of data rows save_to_csv wrote
    ticks_after_signal, \* history: time.sleep(1) calls begun with the flag set
    signal_pc           \* history: where main was when the signal arrived

vars == <<should_exit, pc, csv, known_file, area, ratios_history, current_ids,
          num_pizzerias, num_visits, ratio, threshold, verdict, alerted, i,
          cycles, arrivals, load_ok, scored_on, stl_result, stl_calls,
          appended, save_calls, rows_written, ticks_after_signal, signal_pc>>

\* ------------------------------------------------------- arithmetic
Min(a, b) == IF a <= b THEN a ELSE b

Abs(x) == IF x < 0 THEN -x ELSE x

RECURSIVE GCD(_, _)
GCD(a, b) == IF b = 0 THEN a ELSE GCD(b, a % b)

\* The rational p/q (p >= 0, q > 0) in lowest terms.
Norm(p, q) == IF p = 0 THEN <<0, 1>> ELSE LET g == GCD(p, q) IN <<p \div g, q \div g>>

Zero == <<0, 1>>

\* ratio = (num_visits / num_pizzerias) if num_pizzerias > 0 else 0.0
Ratio(visits, n) == IF n > 0 THEN Norm(visits, n) ELSE Zero

\* f"{ratio:.2f}": the ratio in hundredths, rounded to nearest, ties to even.
Format2(r) ==
    LET s == 100 * r[1]
        f == s \div r[2]
        twice == 2 * (s % r[2])
    IN  IF twice > r[2] \/ (twice = r[2] /\ f % 2 = 1) THEN f + 1 ELSE f

\* float(ratio_str) of a two-decimal text.
ParseFloat(h) == Norm(h, 100)

\* ---------------------------------------------------------- the CSV
NumCell(h) == [t |-> "num", h |-> h]
\* A cell float() rejects (ValueError).
BadCell == [t |-> "bad", h |-> 0]
\* An empty cell (skipped by `if ratio_str`).
EmptyCell == [t |-> "empty", h |-> 0]

NoFile == [exists |-> FALSE, header |-> FALSE, rows |-> <<>>]

\* ratios[-n:]
LastN(s, n) == IF Len(s) <= n THEN s ELSE SubSeq(s, Len(s) - n + 1, Len(s))

\* The loop of load_ratios_history over csv.DictReader: every row whose ratio
\* cell parses, in file order.  DictReader takes the first line of the file
\* as the header: in a file without the header line the first data row names
\* the columns, no row has a "Visit/Pizzeria Ratio" key, and nothing is read.
ReadRatios(file) ==
    IF ~file.exists \/ ~file.header THEN <<>>
    ELSE LET good == SelectSeq(file.rows, LAMBDA c : c.t = "num")
         IN  [k \in 1..Len(good) |-> ParseFloat(good[k].h)]

\* Variant: the whole list is returned, without the [-72:] slice.
LoadRatiosHistoryNoTrunc(file) == ReadRatios(file)

\* load_ratios_history when nothing raises: the last 72 ratios of the file.
LoadRatiosHistory(file) == LastN(ReadRatios(file), WindowCap)

\* save_to_csv.  "ok": the row (and, for a new file, the header first) is
\* written.  "open_failed": open() raised, the file is as it was.
\* "write_failed": open() created or opened the file and the buffered write
\* raised on close: the file exists and nothing was added.
SaveOutcomes(file) == IF file.exists THEN {"ok", "open_failed"}
                      ELSE {"ok", "open_failed", "write_failed"}

SaveToCsv(file, r, outcome) ==
    CASE outcome = "ok" ->
            [exists |-> TRUE,
             header |-> IF file.exists THEN file.header ELSE TRUE,
             rows |-> Append(file.rows, NumCell(Format2(r)))]
      [] outcome = "write_failed" -> [file EXCEPT !.exists = TRUE]
      [] OTHER -> file

\* ------------------------------------------------------- the window
\* Variant: pop() in place of pop(0).
AppendRatioEvictNewest(window, r) ==
    LET w == Append(window, r)
    IN  IF Len(w) > WindowCap THEN SubSeq(w, 1, Len(w) - 1) ELSE w

\* Variant: insert(0, ratio) in place of append(ratio).
AppendRatioFront(window, r) ==
    LET w == <<r>> \o window
    IN  IF Len(w) > WindowCap THEN SubSeq(w, 1, Len(w) - 1) ELSE w

\* ratios_history.append(ratio); if len(ratios_history) > 72: ratios_history.pop(0)
AppendRatio(window, r) ==
    LET w == Append(window, r)
    IN  IF Len(w) > WindowCap THEN Tail(w) ELSE w

\* simulate_visits(n): a sum of n draws of random.randint(3, 15), bounded.
SimulateVisits(n) ==
    {v \in (RandLo * n)..(RandHi * n) : v <= RandLo * n + VisitSpread}

\* --------------------------------------------------- detect_anomaly
RECURSIVE SumTo(_, _)
SumTo(s, k) == IF k = 0 THEN 0 ELSE s[k] + SumTo(s, k - 1)

RECURSIVE SumSqTo(_, _)
SumSqTo(s, k) == IF k = 0 THEN 0 ELSE s[k] * s[k] + SumSqTo(s, k - 1)

\* np.std(s), as n^2 times its square: n^2 times the population variance,
\* n * sum(x^2) - sum(x)^2.
VarN2(s) ==
    LET n == Len(s)
        total == SumTo(s, n)
    IN  n * SumSqTo(s, n) - total * total

\* A residual sequence of length n: the constant c, with the last m entries
\* alternately c + sg and c - sg, the last one being c + sg.
Resid(n, shape) ==
    LET m == shape[1]
        sg == shape[2]
        c == shape[3]
    IN  [k \in 1..n |-> IF k <= n - m THEN c
                        ELSE IF (n - k) % 2 = 0 THEN c + sg ELSE c - sg]

\* Shapes <<m, sg, c>> the scoring specification draws from: zero and
\* non-zero constant residuals (std = 0), and spikes giving scores below,
\* at and above the threshold.
AllShapes == {<<0, 1, 0>>, <<0, 1, 5>>, <<2, -1, 0>>, <<2, 1, 1>>,
              <<4, 1, 0>>, <<6, 1, 0>>, <<8, -1, 0>>}

\* Shapes the main-loop specification draws from.
MainShapes == {<<0, 1, 0>>, <<2, -1, 0>>}

NotInvoked == [kind |-> "none", resid |-> <<>>]

\* What STL(series, period=24, robust=True).fit() may do on a series of length n.
STLOutcomes(n, shapes) ==
    {[kind |-> "raised", resid |-> <<>>]}
        \cup {[kind |-> "fit", resid |-> Resid(n, sh)] : sh \in shapes}

\* Variant: the gate at 23.
TooShortOffByOne(ratios) == Len(ratios) < MinHistory - 1

\* if len(ratios) < 24
TooShort(ratios) == Len(ratios) < MinHistory

\* Variant: no test of resid_std before the division.
ResidStdIsZeroNever(var_n2) == FALSE

\* if resid_std == 0, on the squared deviation
ResidStdIsZero(var_n2) == var_n2 = 0

\* anomaly_score = abs(latest_residual) / resid_std, squared:
\* latest^2 / (var_n2 / n^2).
AnomalyScoreSq(latest_residual, n, var_n2) ==
    Norm(Abs(latest_residual) * Abs(latest_residual) * n * n, var_n2)

\* Variant: >= in place of >.
IsAnomalyGe(score_sq, thr) == score_sq[1] >= thr * thr * score_sq[2]

\* is_anomaly = anomaly_score > threshold
IsAnomaly(score_sq, thr) == score_sq[1] > thr * thr * score_sq[2]

\* Variant: no except clause around the STL call.
PropagatesRaise(out) == out.kind = "raised"

\* Whether an exception of the try block leaves detect_anomaly: the handler
\* is `except Exception`, which catches whatever STL or numpy raises.
Propagates(out) == FALSE

\* detect_anomaly(ratios, threshold), given what the STL call does if made.
\* stl: the STL call made (NotInvoked if none); propagated: an exception
\* left the function.
DetectAnomaly(ratios, thr, out) ==
    IF TooShort(ratios)
    THEN [is_anomaly |-> FALSE, score_sq |-> Zero, stl |-> NotInvoked, propagated |-> FALSE]
    ELSE IF out.kind = "raised"
    THEN [is_anomaly |-> FALSE, score_sq |-> Zero, stl |-> out, propagated |-> Propagates(out)]
    ELSE LET residuals == out.resid
             latest_residual == residuals[Len(residuals)]
             resid_var == VarN2(residuals)
             anomaly_score == AnomalyScoreSq(latest_residual, Len(residuals), resid_var)
         IN  IF ResidStdIsZero(resid_var)
             THEN [is_anomaly |-> FALSE, score_sq |-> Zero, stl |-> out, propagated |-> FALSE]
             ELSE [is_anomaly |-> IsAnomaly(anomaly_score, thr),
                   score_sq |-> anomaly_score,
                   stl |-> out, propagated |-> FALSE]

\* ------------------------------------------------------------- main
\* Variant: a cycle without its save_to_csv call.
StepAfterSkipSave(p) ==
    CASE p = "fetch" -> "save_known"
      [] p = "save_known" -> "append"
      [] p = "append" -> "detect"
      [] p = "detect" -> "log"
      [] p = "log" -> "sleep"
      [] p = "save_csv" -> "sleep"

\* The order of the statements of one cycle of main.
StepAfter(p) ==
    CASE p = "fetch" -> "save_known"
      [] p = "save_known" -> "append"
      [] p = "append" -> "detect"
      [] p = "detect" -> "log"
      [] p = "log" -> "save_csv"
      [] p = "save_csv" -> "sleep"

\* Variant: a sleep loop that does not test the flag.
SleepBreaksNever(flag) == FALSE

\* if should_exit: break
SleepBreaks(flag) == flag

\* while not should_exit
LoopContinues(flag) == ~flag

\* The files pizza_stats.csv may be at startup: ratio cells 3.01, 3.02, ...
\* in file order; a dirty file also holds an empty cell first and a cell
\* float() rejects after every tenth row.
RECURSIVE HistRows(_, _)
HistRows(n, dirty) ==
    IF n = 0 THEN (IF dirty THEN <<EmptyCell>> ELSE <<>>)
    ELSE HistRows(n - 1, dirty) \o <<NumCell(300 + n)>>
            \o (IF dirty /\ n % 10 = 0 THEN <<BadCell>> ELSE <<>>)

HistLens == {0, MinHistory - 2, 35, WindowCap - 1, MaxHist}

\* NoFile: no CSV yet.  The second: an existing empty file without the header
\* line, as save_to_csv leaves it when its first write fails ("write_failed").
\* The others: a header and a clean history of each length, and a dirty one
\* of the longest.
InitFiles ==
    {NoFile, [exists |-> TRUE, header |-> FALSE, rows |-> <<>>]}
        \cup {[exists |-> TRUE, header |-> TRUE, rows |-> HistRows(n, FALSE)] : n \in HistLens}
        \cup {[exists |-> TRUE, header |-> TRUE, rows |-> HistRows(MaxHist, TRUE)]}

ZeroVerdict == [is_anomaly |-> FALSE, score_sq |-> Zero]

InitCommon ==
    /\ should_exit = FALSE
    /\ known_file = {}
    /\ current_ids = {}
    /\ num_pizzerias = 0
    /\ num_visits = 0
    /\ ratio = Zero
    /\ verdict = ZeroVerdict
    /\ alerted = FALSE
    /\ i = 0
    /\ cycles = 0
    /\ load_ok = TRUE
    /\ scored_on = <<>>
    /\ stl_result = NotInvoked
    /\ stl_calls = 0
    /\ appended = 0
    /\ save_calls = 0
    /\ rows_written = 0
    /\ ticks_after_signal = 0
    /\ signal_pc = "none"

\* The process at the start of main, before load_ratios_history.
Init ==
    /\ InitCommon
    /\ pc = "start"
    /\ csv \in InitFiles
    /\ area = MaxPizzerias
    /\ threshold = Threshold
    /\ ratios_history = <<>>
    /\ arrivals = <<>>

\* handle_termination_signal, at any point of the run.
Signal ==
    /\ pc \notin {"exited", "crashed"}
    /\ ~should_exit
    /\ should_exit' = TRUE
    /\ signal_pc' = pc
    /\ UNCHANGED <<pc, csv, known_file, area, ratios_history, current_ids,
                   num_pizzerias, num_visits, ratio, threshold, verdict, alerted, i,
                   cycles, arrivals, load_ok, scored_on, stl_result, stl_calls,
                   appended, save_calls, rows_written, ticks_after_signal>>

\* ratios_history = load_ratios_history(); reading an existing file may raise,
\* and the function then returns [].
LoadHistory ==
    /\ pc = "start"
    /\ \E ok \in (IF csv.exists THEN BOOLEAN ELSE {TRUE}) :
          /\ ratios_history' = (IF ok THEN LoadRatiosHistory(csv) ELSE <<>>)
          /\ arrivals' = (IF ok THEN ReadRatios(csv) ELSE <<>>)
          /\ load_ok' = ok
    /\ pc' = "top"
    /\ UNCHANGED <<should_exit, csv, known_file, area, current_ids, num_pizzerias,
                   num_visits, ratio, threshold, verdict, alerted, i, cycles,
                   scored_on, stl_result, stl_calls, appended, save_calls,
                   rows_written, ticks_after_signal,
                   signal_pc>>

\* The test of the while loop; after the loop the program logs and returns.
LoopTop ==
    /\ pc = "top"
    /\ IF LoopContinues(should_exit)
       THEN /\ cycles < MaxCycles
            /\ cycles' = cycles + 1
            /\ stl_calls' = 0
            /\ pc' = "fetch"
       ELSE /\ pc' = "exited"
            /\ UNCHANGED <<cycles, stl_calls,
                   signal_pc>>
    /\ UNCHANGED <<should_exit, csv, known_file, area, ratios_history, current_ids,
                   num_pizzerias, num_visits, ratio, threshold, verdict, alerted, i,
                   arrivals, load_ok, scored_on, stl_result, appended, save_calls,
                   rows_written, ticks_after_signal,
                   signal_pc>>

\* load_known_pizzerias, fetch_pizzerias and current_ids: the request fails
\* (fetch_pizzerias returns []) or returns the pizzerias of the area.
Fetch ==
    /\ pc = "fetch"
    /\ \E ids \in {{}, 1..area} : current_ids' = ids
    /\ pc' = StepAfter("fetch")
    /\ UNCHANGED <<should_exit, csv, known_file, area, ratios_history,
                   num_pizzerias, num_visits, ratio, threshold, verdict, alerted, i,
                   cycles, arrivals, load_ok, scored_on, stl_result, stl_calls,
                   appended, save_calls, rows_written, ticks_after_signal,
                   signal_pc>>

\* save_known_pizzerias(current_ids): the file is rewritten, or the write
\* raises and the error is logged.
SaveKnown ==
    /\ pc = "save_known"
    /\ known_file' \in {current_ids, known_file}
    /\ pc' = StepAfter("save_known")
    /\ UNCHANGED <<should_exit, csv, area, ratios_history, current_ids,
                   num_pizzerias, num_visits, ratio, threshold, verdict, alerted, i,
                   cycles, arrivals, load_ok, scored_on, stl_result, stl_calls,
                   appended, save_calls, rows_written, ticks_after_signal,
                   signal_pc>>

\* num_pizzerias, num_visits, ratio, and the append to the window with its pop.
AppendStep ==
    /\ pc = "append"
    /\ num_pizzerias' = Cardinality(current_ids)
    /\ \E v \in SimulateVisits(Cardinality(current_ids)) :
          /\ num_visits' = v
          /\ ratio' = Ratio(v, Cardinality(current_ids))
    /\ ratios_history' = AppendRatio(ratios_history, ratio')
    /\ arrivals' = Append(arrivals, ratio')
    /\ appended' = appended + 1
    /\ pc' = StepAfter("append")
    /\ UNCHANGED <<should_exit, csv, known_file, area, current_ids, threshold,
                   verdict, alerted, i, cycles, load_ok, scored_on, stl_result,
                   stl_calls, save_calls, rows_written, ticks_after_signal,
                   signal_pc>>

\* anomaly_detected, anomaly_score = detect_anomaly(ratios_history)
Detect(shapes) ==
    /\ pc = "detect"
    /\ \E out \in STLOutcomes(Len(ratios_history), shapes) :
          \E res \in {DetectAnomaly(ratios_history, threshold, out)} :
              /\ verdict' = (IF res.propagated THEN verdict
                             ELSE [is_anomaly |-> res.is_anomaly, score_sq |-> res.score_sq])
              /\ stl_result' = res.stl
              /\ stl_calls' = stl_calls + (IF res.stl.kind = "none" THEN 0 ELSE 1)
              /\ pc' = (IF res.propagated THEN "crashed" ELSE StepAfter("detect"))
    /\ scored_on' = ratios_history
    /\ UNCHANGED <<should_exit, csv, known_file, area, ratios_history, current_ids,
                   num_pizzerias, num_visits, ratio, threshold, alerted, i, cycles,
                   arrivals, load_ok, appended, save_calls, rows_written,
                   ticks_after_signal,
                   signal_pc>>

DetectStep == Detect(MainShapes)

\* The status lines, and the alert line if anomaly_detected.
LogStep ==
    /\ pc = "log"
    /\ alerted' = verdict.is_anomaly
    /\ pc' = StepAfter("log")
    /\ UNCHANGED <<should_exit, csv, known_file, area, ratios_history, current_ids,
                   num_pizzerias, num_visits, ratio, threshold, verdict, i, cycles,
                   arrivals, load_ok, scored_on, stl_result, stl_calls, appended,
                   save_calls, rows_written, ticks_after_signal,
                   signal_pc>>

\* save_to_csv(timestamp, num_pizzerias, num_visits, ratio), then the sleep
\* loop is entered.
SaveCsvStep ==
    /\ pc = "save_csv"
    /\ \E o \in SaveOutcomes(csv) :
          /\ csv' = SaveToCsv(csv, ratio, o)
          /\ rows_written' = rows_written + (IF o = "ok" THEN 1 ELSE 0)
    /\ save_calls' = save_calls + 1
    /\ i' = 0
    /\ pc' = StepAfter("save_csv")
    /\ UNCHANGED <<should_exit, known_file, area, ratios_history, current_ids,
                   num_pizzerias, num_visits, ratio, threshold, verdict, alerted,
                   cycles, arrivals, load_ok, scored_on, stl_result, stl_calls,
                   appended, ticks_after_signal,
                   signal_pc>>

\* The whole `for _ in range(3600)` loop as one step (a signal that arrives
\* during it is a Signal step taken before it).
SleepLoop ==
    /\ pc = "sleep"
    /\ pc' = "top"
    /\ UNCHANGED <<should_exit, csv, known_file, area, ratios_history, current_ids,
                   num_pizzerias, num_visits, ratio, threshold, verdict, alerted, i,
                   cycles, arrivals, load_ok, scored_on, stl_result, stl_calls,
                   appended, save_calls, rows_written, ticks_after_signal,
                   signal_pc>>

\* One iteration of the sleep loop begins: the loop ends after 3600
\* iterations, or breaks if should_exit is set.
SleepCheck ==
    /\ pc = "sleep"
    /\ pc' = (IF i < SleepSteps /\ ~SleepBreaks(should_exit) THEN "sleep_tick" ELSE "top")
    /\ UNCHANGED <<should_exit, csv, known_file, area, ratios_history, current_ids,
                   num_pizzerias, num_visits, ratio, threshold, verdict, alerted, i,
                   cycles, arrivals, load_ok, scored_on, stl_result, stl_calls,
                   appended, save_calls, rows_written, ticks_after_signal,
                   signal_pc>>

\* time.sleep(1)
SleepTick ==
    /\ pc = "sleep_tick"
    /\ i' = i + 1
    /\ ticks_after_signal' = ticks_after_signal + (IF should_exit THEN 1 ELSE 0)
    /\ pc' = "sleep"
    /\ UNCHANGED <<should_exit, csv, known_file, area, ratios_history, current_ids,
                   num_pizzerias, num_visits, ratio, threshold, verdict, alerted,
                   cycles, arrivals, load_ok, scored_on, stl_result, stl_calls,
                   appended, save_calls, rows_written,
                   signal_pc>>

\* The monitoring loop, the sleep between two cycles taken as one step.
Next ==
    \/ Signal
    \/ LoadHistory
    \/ LoopTop
    \/ Fetch
    \/ SaveKnown
    \/ AppendStep
    \/ DetectStep
    \/ LogStep
    \/ SaveCsvStep
    \/ SleepLoop

Spec == Init /\ [][Next]_vars

\* The process at the start of main with no CSV and an Overpass area without
\* pizzerias: the specification of the sleep loop, taken step by step.
InitPoll ==
    /\ InitCommon
    /\ pc = "start"
    /\ csv = NoFile
    /\ area = 0
    /\ threshold = Threshold
    /\ ratios_history = <<>>
    /\ arrivals = <<>>

NextPoll ==
    \/ Signal
    \/ LoadHistory
    \/ LoopTop
    \/ Fetch
    \/ SaveKnown
    \/ AppendStep
    \/ DetectStep
    \/ LogStep
    \/ SaveCsvStep
    \/ SleepCheck
    \/ SleepTick

SpecPoll == InitPoll /\ [][NextPoll]_vars

\* detect_anomaly as a function: a call on a history of each of these
\* lengths, with each threshold, and every outcome of STL.
ScoreLens == {0, 1, 12, MinHistory - 1, MinHistory, MinHistory + 1, 32, 36, 48,
              WindowCap, MaxHist}

ScoreThresholds == {Threshold - 1, Threshold}

InitScore ==
    /\ InitCommon
    /\ pc = "detect"
    /\ csv = NoFile
    /\ area = 0
    /\ threshold \in ScoreThresholds
    /\ \E n \in ScoreLens : ratios_history = [k \in 1..n |-> ParseFloat(300 + k)]
    /\ arrivals = ratios_history

ScoreStep == Detect(AllShapes)

NextScore == ScoreStep

SpecScore == InitScore /\ [][NextScore]_vars

\* ------------------------------------------------------------ claims
AfterDetect == {"log", "save_csv", "sleep"}

CycleDone == {"sleep", "top", "exited"}

\* C1: the window never holds more than 72 ratios, in any state of the run
\* and in particular when it is passed to detect_anomaly; an append to a
\* window of 72 drops its first (oldest) entry and nothing else.
C1_WindowBounded ==
    /\ [](Len(ratios_history) <= WindowCap /\ Len(scored_on) <= WindowCap)
    /\ [][(pc = "append" /\ pc' = "detect" /\ Len(ratios_history) = WindowCap)
            => (/\ Len(ratios_history') = WindowCap
                /\ \A k \in 1..(WindowCap - 1) : ratios_history'[k] = ratios_history[k + 1]
                /\ ratios_history'[WindowCap] = ratio')]_vars

\* A cycle has appended to a full window, loaded from a CSV longer than 72 rows.
C1_Witness ==
    /\ pc = "detect"
    /\ appended = 1
    /\ Len(arrivals) = MaxHist + 1
    /\ Len(ratios_history) = WindowCap

\* C2: the window is, in arrival order, the last min(72, h + k) of the h
\* ratios read from the CSV at startup followed by the k ratios appended.
C2_WindowIsSuffix ==
    LET total == Len(arrivals)
        n == IF total < 72 THEN total ELSE 72
    IN  /\ Len(ratios_history) = n
        /\ \A k \in 1..n : ratios_history[k] = arrivals[total - n + k]

\* Two appends after a history of more than 72 rows.
C2_Witness ==
    /\ pc = "sleep"
    /\ appended = 2
    /\ load_ok
    /\ Len(arrivals) = MaxHist + 2

\* C3: on a history shorter than 24, detect_anomaly returns (False, 0.0)
\* and does not call STL; STL is called only on histories of 24 or more.
C3_ShortHistory ==
    pc = "log" =>
        /\ Len(scored_on) < 24 =>
              (verdict = ZeroVerdict /\ stl_result.kind = "none" /\ stl_calls = 0)
        /\ stl_result.kind # "none" => Len(scored_on) >= 24

\* detect_anomaly has returned on a history of 23.
C3_Witness ==
    /\ pc = "log"
    /\ Len(scored_on) = 23
    /\ stl_result.kind = "none"

\* C4: an exception of the STL call never leaves detect_anomaly: the call
\* returns (False, 0.0), main goes on to its next statement, and STL is
\* called at most once in a cycle.
C4_NoPropagation ==
    /\ pc # "crashed"
    /\ stl_calls <= 1
    /\ stl_result.kind = "raised" => verdict = ZeroVerdict
    /\ (stl_result.kind = "raised" /\ pc \in CycleDone) => save_calls = cycles

\* STL raised in a cycle, and the cycle went on to its CSV row and its sleep.
C4_Witness ==
    /\ stl_result.kind = "raised"
    /\ pc = "sleep"
    /\ save_calls = cycles
    /\ Len(scored_on) >= MinHistory

\* C5: after a fit with a non-zero residual deviation, the score is
\* |residual[-1]| / resid_std (score^2 * variance = residual[-1]^2), and
\* is_anomaly holds exactly when the score exceeds the threshold, strictly.
C5_ScoreAndStrictThreshold ==
    (pc = "log" /\ stl_result.kind = "fit" /\ VarN2(stl_result.resid) # 0) =>
        LET r == stl_result.resid
            n == Len(r)
            sq == verdict.score_sq
        IN  /\ sq[2] > 0
            /\ sq[1] * VarN2(r) = sq[2] * r[n] * r[n] * n * n
            /\ verdict.is_anomaly <=> (sq[1] > threshold * threshold * sq[2])
            /\ sq[1] = threshold * threshold * sq[2] => ~verdict.is_anomaly

\* The last residual is exactly threshold * resid_std (score 3, threshold 3).
C5_Witness ==
    /\ pc = "log"
    /\ stl_result.kind = "fit"
    /\ threshold = 3
    /\ verdict.score_sq = <<9, 1>>
    /\ ~verdict.is_anomaly

\* C6: when the residual deviation is 0 the verdict is (False, 0.0); a
\* verdict with is_anomaly carries a score above the threshold, never 0.
C6_DegenerateResidual ==
    pc = "log" =>
        /\ (stl_result.kind = "fit" /\ VarN2(stl_result.resid) = 0) => verdict = ZeroVerdict
        /\ verdict.score_sq[2] > 0
        /\ verdict.is_anomaly =>
              (/\ verdict.score_sq[1] > threshold * threshold * verdict.score_sq[2]
               /\ verdict.score_sq # Zero)

\* A constant, non-zero residual sequence: deviation 0, last residual 5.
C6_Witness ==
    /\ pc = "log"
    /\ stl_result.kind = "fit"
    /\ Len(stl_result.resid) >= MinHistory
    /\ \A k \in 1..Len(stl_result.resid) : stl_result.resid[k] = 5
    /\ verdict = ZeroVerdict

\* C7 as stated: a signal never cuts a cycle short, and at exit the number of
\* CSV rows written equals the number of ratios appended to the window.
C7_RowsEqualAppends ==
    pc = "exited" => (save_calls = appended /\ rows_written = appended)

\* C7 amended: whatever the flag, each statement of a cycle is followed by the
\* next one; a cycle that is over has appended one ratio and called
\* save_to_csv once, and the rows written are those of the calls that did
\* not fail.
C7_CycleRunsToCompletion ==
    /\ [](pc \in CycleDone =>
            (/\ appended = cycles
             /\ save_calls = appended
             /\ rows_written <= save_calls
             /\ Len(csv.rows) >= rows_written))
    /\ [][/\ pc = "fetch" => pc' \in {"fetch", "save_known"}
          /\ pc = "save_known" => pc' \in {"save_known", "append"}
          /\ pc = "append" => pc' \in {"append", "detect"}
          /\ pc = "detect" => pc' \in {"detect", "log"}
          /\ pc = "log" => pc' \in {"log", "save_csv"}
          /\ pc = "save_csv" => pc' \in {"save_csv", "sleep"}
          /\ pc' = "exited" => pc \in {"top", "exited"}]_vars

\* The signal arrived before the append of a cycle, and the process has left
\* the loop after that cycle's save_to_csv call.
C7_Witness ==
    /\ pc = "exited"
    /\ signal_pc = "append"
    /\ cycles = 2
    /\ save_calls = appended
    /\ appended = cycles

\* C8: the flag is never cleared; with the flag set, the sleep loop breaks at
\* its next test, the while loop ends at its next test and no cycle starts;
\* at most one time.sleep(1) is begun after the flag is set.
C8_PromptExit ==
    /\ [](ticks_after_signal <= 1)
    /\ [][/\ should_exit => should_exit'
          /\ should_exit => cycles' = cycles
          /\ should_exit => pc' # "fetch" \/ pc = "fetch"
          /\ (should_exit /\ pc = "sleep") => pc' \in {"sleep", "top"}
          /\ (should_exit /\ pc = "sleep_tick") => pc' \in {"sleep_tick", "sleep"}
          /\ (should_exit /\ pc = "top") => pc' \in {"top", "exited"}
          /\ pc' = "sleep_tick" => (pc = "sleep_tick" \/ ~should_exit)]_vars

\* The signal arrived between the test and the time.sleep(1) of an iteration:
\* that one sleep was taken, and the process has left the loop.
C8_Witness ==
    /\ pc = "exited"
    /\ signal_pc = "sleep_tick"
    /\ ticks_after_signal = 1
    /\ i < SleepSteps

\* C9: one ratio is appended per cycle, with at most one eviction; the list
\* passed to detect_anomaly is the window after that append, so it ends with
\* the cycle's ratio; the call leaves the window as it is, and the window
\* changes nowhere but at the startup load and the append.
C9_AppendThenScore ==
    /\ [](/\ pc \in AfterDetect =>
              (/\ scored_on = ratios_history
               /\ Len(scored_on) >= 1
               /\ scored_on[Len(scored_on)] = ratio)
          /\ pc \in {"detect", "log", "save_csv", "sleep", "top", "exited"} =>
              appended = cycles
          /\ pc \in {"fetch", "save_known", "append"} => appended = cycles - 1)
    /\ [][/\ ratios_history' # ratios_history => pc \in {"start", "append"}
          /\ pc = "append" =>
              (/\ Len(ratios_history') >= Len(ratios_history)
               /\ Len(ratios_history') <= Len(ratios_history) + 1)
          /\ pc = "detect" => ratios_history' = ratios_history]_vars

\* The second cycle has scored a full window that its append evicted from.
C9_Witness ==
    /\ pc = "log"
    /\ cycles = 2
    /\ Len(arrivals) > WindowCap
    /\ stl_result.kind = "fit"
    /\ scored_on[Len(scored_on)] = ratio
    /\ ratio # scored_on[Len(scored_on) - 1]

\* C10: after completed cycles whose CSV appends all succeeded (and a startup
\* load that did not fail), load_ratios_history would rebuild a window as
\* long as the one in memory, each value being the in-memory value rounded to
\* two decimals.
C10_RoundTrip ==
    (pc \in CycleDone /\ cycles >= 1 /\ load_ok /\ rows_written = save_calls) =>
        LET rebuilt == LoadRatiosHistory(csv)
        IN  /\ Len(rebuilt) = Len(ratios_history)
            /\ \A k \in 1..Len(rebuilt) :
                  k <= Len(ratios_history) =>
                      rebuilt[k] = ParseFloat(Format2(ratios_history[k]))

====
